---- MODULE Spec2Model ----
(***************************************************************************)
(* A model of needs/base.py: Need objects on a heap, their boolean         *)
(* evaluation, their enforcement as a context (__enter__), the decorator   *)
(* form, the composition operators ~ & | ^ and the needs() adapter.        *)
(***************************************************************************)
EXTENDS Naturals, Sequences, FiniteSets

VARIABLES heap, last

vars == <<heap, last>>

\* The largest number of Need objects alive at once (no_need included).
MaxNeeds == 3

\* The same bound for the runs that build a composite of a composite of a
\* leaf other than no_need.
MaxNested == 4

None == "None"

\* Need.error, the class attribute every Need inherits unless it overrides it.
Exception == "Exception"

\* The values a leaf class may set as its error attribute.
Errors == {Exception, "Err1", "Err2"}

\* The callables handed to the decorator: one returns its argument, one raises.
Callables == {"echo", "raiser"}

Args == {"x", "y"}

\* echo takes one argument; raiser takes none.
ArgsOf(f) == IF f = "echo" THEN Args ELSE {None}

ValueError == "ValueError"

Refs(h) == 1..Len(h)

----------------------------------------------------------------------------
\* Objects

LeafObj(b, e) ==
    [kind |-> "leaf", bool_ |-> b, error |-> e,
     parent_need |-> 0, first_need |-> 0, second_need |-> 0]

NegObj(p) ==
    [kind |-> "neg", bool_ |-> TRUE, error |-> Exception,
     parent_need |-> p, first_need |-> 0, second_need |-> 0]

BinObj(k, f, s) ==
    [kind |-> k, bool_ |-> TRUE, error |-> Exception,
     parent_need |-> 0, first_need |-> f, second_need |-> s]

no_need == LeafObj(TRUE, Exception)

\* Where no_need lives: it is the first object the module builds.
NoNeedRef == 1

----------------------------------------------------------------------------
\* Evaluation: is_met per class, and bool(need)

RECURSIVE bool(_, _)

Need_is_met(h, i) == h[i].bool_

NegativeNeed_is_met(h, i) == ~bool(h, h[i].parent_need)

AndNeed_is_met_Or(h, i) == bool(h, h[i].first_need) \/ bool(h, h[i].second_need)

AndNeed_is_met(h, i) == bool(h, h[i].first_need) /\ bool(h, h[i].second_need)

OrNeed_is_met(h, i) == bool(h, h[i].first_need) \/ bool(h, h[i].second_need)

XorNeed_is_met(h, i) == bool(h, h[i].first_need) # bool(h, h[i].second_need)

is_met(h, i) ==
    CASE h[i].kind = "leaf" -> Need_is_met(h, i)
      [] h[i].kind = "neg"  -> NegativeNeed_is_met(h, i)
      [] h[i].kind = "and"  -> AndNeed_is_met(h, i)
      [] h[i].kind = "or"   -> OrNeed_is_met(h, i)
      [] h[i].kind = "xor"  -> XorNeed_is_met(h, i)

bool(h, i) == is_met(h, i)

----------------------------------------------------------------------------
\* The error attribute: a class attribute, or a property on Negative/Or

RECURSIVE error(_, _)

NegativeNeed_error_Default(h, i) == Exception

NegativeNeed_error(h, i) == error(h, h[i].parent_need)

OrNeed_error_First(h, i) == error(h, h[i].first_need)

OrNeed_error(h, i) == error(h, h[i].second_need)

error(h, i) ==
    CASE h[i].kind = "leaf" -> h[i].error
      [] h[i].kind = "neg"  -> NegativeNeed_error(h, i)
      [] h[i].kind = "or"   -> OrNeed_error(h, i)
      [] h[i].kind = "and"  -> Exception
      [] h[i].kind = "xor"  -> Exception

----------------------------------------------------------------------------
\* Enforcement: __enter__ yields None, or the error it raises

Need_enter(h, i) == IF ~bool(h, i) THEN error(h, i) ELSE None

AndNeed_enter_SecondFirst(h, i) ==
    IF ~bool(h, h[i].second_need) THEN error(h, h[i].second_need)
    ELSE IF ~bool(h, h[i].first_need) THEN error(h, h[i].first_need)
    ELSE None

AndNeed_enter(h, i) ==
    IF ~bool(h, h[i].first_need) THEN error(h, h[i].first_need)
    ELSE IF ~bool(h, h[i].second_need) THEN error(h, h[i].second_need)
    ELSE None

XorNeed_enter_Swapped(h, i) ==
    LET f == bool(h, h[i].first_need)
        s == bool(h, h[i].second_need)
    IN  IF ~f /\ ~s THEN error(h, h[i].first_need)
        ELSE IF f /\ s THEN error(h, h[i].second_need)
        ELSE None

XorNeed_enter_NeitherOnly(h, i) ==
    LET f == bool(h, h[i].first_need)
        s == bool(h, h[i].second_need)
    IN  IF ~f /\ ~s THEN error(h, h[i].second_need) ELSE None

XorNeed_enter(h, i) ==
    LET f == bool(h, h[i].first_need)
        s == bool(h, h[i].second_need)
    IN  IF ~f /\ ~s THEN error(h, h[i].second_need)
        ELSE IF f /\ s THEN error(h, h[i].first_need)
        ELSE None

enter(h, i) ==
    CASE h[i].kind = "and" -> AndNeed_enter(h, i)
      [] h[i].kind = "xor" -> XorNeed_enter(h, i)
      [] OTHER             -> Need_enter(h, i)

\* __exit__ returns None: an exception of the body is not suppressed.
exit(type_) == FALSE

----------------------------------------------------------------------------
\* The decorator: need(f) returns decorated, which runs f inside "with need"

Outcome(c, p, r, e) == [calls |-> c, passed |-> p, ret |-> r, raised |-> e]

call(f, a) ==
    IF f = "raiser" THEN [ret |-> None, raised |-> ValueError]
    ELSE [ret |-> a, raised |-> None]

decorated_CallFirst(h, i, f, a) ==
    LET r == call(f, a)
        e == enter(h, i)
    IN  IF e # None THEN Outcome(1, a, None, e)
        ELSE Outcome(1, a, r.ret, r.raised)

decorated(h, i, f, a) ==
    LET e == enter(h, i)
    IN  IF e # None THEN Outcome(0, None, None, e)
        ELSE LET r == call(f, a)
             IN  IF r.raised # None /\ exit(r.raised)
                 THEN Outcome(1, a, None, None)
                 ELSE Outcome(1, a, r.ret, r.raised)

needs_NoNeed(need) == NoNeedRef

needs(need) == need

----------------------------------------------------------------------------
\* The record of the last operation and what it gave back

NoOutcome == Outcome(0, None, None, None)

Op(o, n, m, nw, f, a, out) ==
    [op |-> o, need |-> n, met |-> m, new |-> nw, f |-> f, arg |-> a, out |-> out]

Init ==
    /\ heap = <<no_need>>
    /\ last = Op("init", 0, FALSE, 0, None, None, NoOutcome)

\* Need(bool_) of a leaf class whose error attribute is e
NewNeed(b, e) ==
    /\ heap' = Append(heap, LeafObj(b, e))
    /\ last' = Op("new", 0, FALSE, Len(heap) + 1, None, None, NoOutcome)

\* The condition behind a leaf changes between two calls
SetCondition(i, b) ==
    /\ heap[i].kind = "leaf"
    /\ heap[i].bool_ # b
    /\ heap' = [heap EXCEPT ![i].bool_ = b]
    /\ last' = Op("set", i, FALSE, 0, None, None, NoOutcome)

Invert_InPlace(i) ==
    /\ heap' = Append([heap EXCEPT ![i].bool_ = ~heap[i].bool_], NegObj(i))
    /\ last' = Op("invert", i, FALSE, Len(heap) + 1, None, None, NoOutcome)

\* ~need
Invert(i) ==
    /\ heap' = Append(heap, NegObj(i))
    /\ last' = Op("invert", i, FALSE, Len(heap) + 1, None, None, NoOutcome)

\* need & other
And(i, j) ==
    /\ heap' = Append(heap, BinObj("and", i, j))
    /\ last' = Op("and", i, FALSE, Len(heap) + 1, None, None, NoOutcome)

\* need | other
Or(i, j) ==
    /\ heap' = Append(heap, BinObj("or", i, j))
    /\ last' = Op("or", i, FALSE, Len(heap) + 1, None, None, NoOutcome)

\* need ^ other
Xor(i, j) ==
    /\ heap' = Append(heap, BinObj("xor", i, j))
    /\ last' = Op("xor", i, FALSE, Len(heap) + 1, None, None, NoOutcome)

\* bool(need)
Evaluate(i) ==
    /\ last' = Op("bool", i, bool(heap, i), 0, None, None, NoOutcome)
    /\ UNCHANGED heap

\* with need: pass
Enter(i) ==
    /\ last' = Op("enter", i, FALSE, 0, None, None,
                  Outcome(0, None, None, enter(heap, i)))
    /\ UNCHANGED heap

\* need(f)(a)
Decorated(i, f, a) ==
    /\ last' = Op("decorated", i, FALSE, 0, f, a, decorated(heap, i, f, a))
    /\ UNCHANGED heap

\* needs(need), whose result is then used as a decorator
Needs(i) ==
    /\ last' = Op("needs", i, FALSE, needs(i), None, None, NoOutcome)
    /\ UNCHANGED heap

Room(cap) == Len(heap) < cap

NextUpTo(cap) ==
    \/ \E b \in BOOLEAN, e \in Errors : Room(cap) /\ NewNeed(b, e)
    \/ \E i \in Refs(heap), b \in BOOLEAN : SetCondition(i, b)
    \/ \E i \in Refs(heap) : Room(cap) /\ Invert(i)
    \/ \E i, j \in Refs(heap) : Room(cap) /\ And(i, j)
    \/ \E i, j \in Refs(heap) : Room(cap) /\ Or(i, j)
    \/ \E i, j \in Refs(heap) : Room(cap) /\ Xor(i, j)
    \/ \E i \in Refs(heap) : Evaluate(i)
    \/ \E i \in Refs(heap) : Enter(i)
    \/ \E i \in Refs(heap), f \in Callables :
          \E a \in ArgsOf(f) : Decorated(i, f, a)
    \/ \E i \in Refs(heap) : Needs(i)

Next == NextUpTo(MaxNeeds)

NextNested == NextUpTo(MaxNested)

Spec == Init /\ [][Next]_vars

SpecNested == Init /\ [][NextNested]_vars

----------------------------------------------------------------------------
\* Properties

Obj == heap[last.need]

Raised == last.out.raised

FirstMet == bool(heap, Obj.first_need)

SecondMet == bool(heap, Obj.second_need)

FirstError == error(heap, Obj.first_need)

SecondError == error(heap, Obj.second_need)

\* C1: bool(a & b) is bool(a) and bool(b), bool(a | b) is bool(a) or bool(b),
\* bool(a ^ b) is bool(a) # bool(b), for leaf and composite operands alike and
\* on the operands' values at the time of the evaluation.
C1_CompositeEvaluation ==
    last.op = "bool" =>
        /\ Obj.kind = "and" => (last.met <=> (FirstMet /\ SecondMet))
        /\ Obj.kind = "or"  => (last.met <=> (FirstMet \/ SecondMet))
        /\ Obj.kind = "xor" => (last.met <=> (FirstMet # SecondMet))

\* no_need was built met; an "and" over it is evaluated after it became unmet
\* while the other operand is met.
C1_Witness ==
    /\ last.op = "bool"
    /\ Obj.kind = "and"
    /\ Obj.first_need = NoNeedRef
    /\ ~heap[NoNeedRef].bool_
    /\ SecondMet
    /\ ~last.met

C3_XorEnforcement ==
    (last.op = "enter" /\ Obj.kind = "xor") =>
        Raised = IF ~FirstMet /\ ~SecondMet THEN SecondError
                 ELSE IF FirstMet /\ SecondMet THEN FirstError
                 ELSE None

C3_Witness ==
    /\ last.op = "enter"
    /\ Obj.kind = "xor"
    /\ FirstMet
    /\ SecondMet
    /\ FirstError # SecondError
    /\ Raised = FirstError

\* C4: entering a | b raises only when a and b are both unmet, and then it
\* raises b's error.
C4_OrEnforcement ==
    (last.op = "enter" /\ Obj.kind = "or") =>
        Raised = IF ~FirstMet /\ ~SecondMet THEN SecondError ELSE None

C4_Witness ==
    /\ last.op = "enter"
    /\ Obj.kind = "or"
    /\ ~FirstMet
    /\ ~SecondMet
    /\ FirstError # SecondError
    /\ Raised = SecondError

RECURSIVE Leaves(_, _)

\* The leaf Needs a Need is built from.
Leaves(h, i) ==
    CASE h[i].kind = "leaf" -> {i}
      [] h[i].kind = "neg"  -> Leaves(h, h[i].parent_need)
      [] OTHER -> Leaves(h, h[i].first_need) \cup Leaves(h, h[i].second_need)

\* C5: a failed enforcement raises the error of one of the leaf Needs the Need
\* is built from, and an "and" whose unmet operand is a composite raises what
\* entering that operand alone raises.
C5_LeafFailureSurfaced ==
    (last.op = "enter" /\ Raised # None) =>
        /\ Raised \in {heap[l].error : l \in Leaves(heap, last.need)}
        /\ Obj.kind = "and" =>
               Raised = enter(heap, IF ~FirstMet THEN Obj.first_need
                                    ELSE Obj.second_need)

\* C6: ~a is met exactly when a is not, and entering ~a raises a's error
\* exactly when a is met.
C6_Negation ==
    /\ (last.op = "bool" /\ Obj.kind = "neg") =>
           (last.met <=> ~bool(heap, Obj.parent_need))
    /\ (last.op = "enter" /\ Obj.kind = "neg") =>
           Raised = IF bool(heap, Obj.parent_need)
                    THEN error(heap, Obj.parent_need)
                    ELSE None

C6_Witness ==
    /\ last.op = "enter"
    /\ Obj.kind = "neg"
    /\ bool(heap, Obj.parent_need)
    /\ Raised = error(heap, Obj.parent_need)
    /\ Raised # Exception

\* C7: need(f)(a) on an unmet need does not call f and raises what entering
\* the need raises; on a met need it calls f once with a and gives back f's
\* result or f's exception.
C7_GuardedCall ==
    last.op = "decorated" =>
        IF ~bool(heap, last.need)
        THEN /\ last.out.calls = 0
             /\ Raised # None
             /\ Raised = enter(heap, last.need)
        ELSE /\ last.out.calls = 1
             /\ last.out.passed = last.arg
             /\ last.out.ret = call(last.f, last.arg).ret
             /\ Raised = call(last.f, last.arg).raised

C7_Witness ==
    /\ last.op = "decorated"
    /\ Obj.kind # "leaf"
    /\ ~bool(heap, last.need)
    /\ last.f = "raiser"
    /\ last.out.calls = 0
    /\ Raised \notin {None, ValueError, Exception}

\* C8: entering a Need raises exactly when the Need is not met.
C8_EnforceIffUnmet ==
    last.op = "enter" => ((Raised # None) <=> ~bool(heap, last.need))

C8_Witness ==
    /\ last.op = "enter"
    /\ Obj.kind = "xor"
    /\ heap[Obj.first_need].kind = "and"
    /\ FirstMet
    /\ SecondMet
    /\ Raised # None

\* C9: needs(need) is need itself, so that needs(need)(f) runs or does not
\* run f, and raises, exactly as need(f) does.
C9_NeedsIsIdentity ==
    last.op = "needs" =>
        /\ last.new = last.need
        /\ \A f \in Callables : \A a \in ArgsOf(f) :
              decorated(heap, last.new, f, a) = decorated(heap, last.need, f, a)

C9_Witness ==
    /\ last.op = "needs"
    /\ last.need # NoNeedRef
    /\ last.new = last.need
    /\ ~bool(heap, last.need)
    /\ decorated(heap, last.new, "raiser", None).calls = 0

\* C10: evaluation, enforcement, the guarded call and the composition
\* operators leave every existing Need's fields as they were, so a leaf gives
\* the same evaluation and the same enforcement after them as before.
C10_Frame ==
    [][last'.op \in {"bool", "enter", "decorated", "needs",
                     "invert", "and", "or", "xor"} =>
          /\ Len(heap') >= Len(heap)
          /\ \A i \in Refs(heap) :
                /\ heap'[i] = heap[i]
                /\ heap[i].kind = "leaf" =>
                      /\ bool(heap', i) = bool(heap, i)
                      /\ enter(heap', i) = enter(heap, i)]_vars

C10_Witness ==
    /\ last.op = "invert"
    /\ heap[last.need].kind = "leaf"
    /\ ~heap[last.need].bool_
    /\ heap[last.new].parent_need = last.need

====
